---- MODULE Spec2Model ----
(***************************************************************************)
(* Vehicle taxonomy (Vehicle, Car, ElectricCar, Bus, Motorcycle), its      *)
(* value types (Engine, Transmission, Wheel) and the VehicleStorage that   *)
(* persists a list of vehicles to a JSON record file and an XML markup     *)
(* file, as implemented in main.py.                                        *)
(*                                                                         *)
(* Python values are represented as follows.                               *)
(*   str    a TLA+ string                                                  *)
(*   bool   a TLA+ boolean                                                 *)
(*   int    [t |-> "int",   m |-> n, e |-> 0]                              *)
(*   float  [t |-> "float", m |-> m, e |-> e], the decimal m / 10^e with   *)
(*          no trailing zero in the fraction (the shortest decimal that    *)
(*          Python's repr prints for the float)                            *)
(*   dict   a TLA+ function whose domain is the set of keys                *)
(*   list   a TLA+ sequence                                                *)
(* An object is a record of its attributes plus "kind", its class.         *)
(* The text of an XML element that holds a number is a sequence of         *)
(* one-character strings; the text of one that holds a str or a bool is a  *)
(* TLA+ string.                                                            *)
(* An operation that may raise returns [err |-> e, val |-> v]; err is      *)
(* "none" or the name of the exception class.                              *)
(***************************************************************************)
EXTENDS Integers, Sequences, FiniteSets, TLC

VARIABLES
    vehicles,       \* VehicleStorage.vehicles
    jsonFile,       \* content of the JSON file on disk, or NoFile
    xmlFile,        \* content of the XML file on disk, or NoFile
    savedJson,      \* history: the list save_json wrote the JSON file from
    savedXml,       \* history: the list save_xml wrote the XML file from
    last,           \* history: the last storage call, how it returned and how
                    \* many vehicles the store held when it was called
    engine,         \* the caller's local `engine`
    transmission,   \* the caller's local `transmission`
    wheel,          \* the Wheel the caller constructed last
    made            \* history: the last constructor call and how it returned

vars == <<vehicles, jsonFile, xmlFile, savedJson, savedXml, last,
          engine, transmission, wheel, made>>

storeVars == <<vehicles, jsonFile, xmlFile, savedJson, savedXml, last>>
localVars == <<engine, transmission, wheel, made>>

----------------------------------------------------------------------------
(* Bounds of the model *)

MaxVehicles == 2    \* add() is offered while the store holds fewer vehicles
MaxEntries == 2     \* entries of a file written by another program

----------------------------------------------------------------------------
(* Python numbers and their text *)

\* a file, a history variable or a local is the empty tuple while there is
\* nothing in it and a one-element tuple holding its value otherwise
Nothing == <<>>
Some(x) == <<x>>
ValueOf(s) == s[1]

NoFile == Nothing
File(content) == Some(content)
Content(file) == ValueOf(file)

None == "None"

Int_(n) == [t |-> "int", m |-> n, e |-> 0]
Float_(m, e) == [t |-> "float", m |-> m, e |-> e]

Digits == <<"0", "1", "2", "3", "4", "5", "6", "7", "8", "9">>

IsDigit(c) == \E i \in 1..10 : Digits[i] = c
DigitVal(c) == (CHOOSE i \in 1..10 : Digits[i] = c) - 1

Abs(n) == IF n < 0 THEN -n ELSE n

RECURSIVE Pow10(_)
Pow10(e) == IF e = 0 THEN 1 ELSE 10 * Pow10(e - 1)

\* the decimal digits of a natural number, most significant first
RECURSIVE NatDigits(_)
NatDigits(n) ==
    IF n < 10 THEN <<Digits[n + 1]>>
    ELSE Append(NatDigits(n \div 10), Digits[(n % 10) + 1])

RECURSIVE PadLeft(_, _)
PadLeft(s, len) == IF Len(s) >= len THEN s ELSE PadLeft(<<"0">> \o s, len)

\* the value of a sequence of digits
RECURSIVE DigitsNat(_)
DigitsNat(s) ==
    IF s = <<>> THEN 0
    ELSE 10 * DigitsNat(SubSeq(s, 1, Len(s) - 1)) + DigitVal(s[Len(s)])

AllDigits(s) == \A i \in 1..Len(s) : IsDigit(s[i])

\* numbers compare by value in Python: 200 == 200.0
PyEq(x, y) == x.m * Pow10(y.e) = y.m * Pow10(x.e)

Sign(n) == IF n < 0 THEN <<"-">> ELSE <<>>

\* str(x) of an int or a float
StrNum(x) ==
    IF x.t = "int" THEN Sign(x.m) \o NatDigits(Abs(x.m))
    ELSE LET ds == PadLeft(NatDigits(Abs(x.m)), x.e + 1)
             ip == SubSeq(ds, 1, Len(ds) - x.e)
             fp == IF x.e = 0 THEN <<"0">> ELSE SubSeq(ds, Len(ds) - x.e + 1, Len(ds))
         IN  Sign(x.m) \o ip \o <<".">> \o fp

\* a variant of StrBool that writes the text in lower case
StrBool_lower(b) == IF b THEN "true" ELSE "false"

\* str(b) of a bool
StrBool(b) == IF b THEN "True" ELSE "False"

Unsigned(s) == IF s # <<>> /\ s[1] = "-" THEN Tail(s) ELSE s
Negative(s) == s # <<>> /\ s[1] = "-"

\* int(text)
ParseInt(s) ==
    LET u == Unsigned(s)
    IN  IF u # <<>> /\ AllDigits(u)
        THEN [err |-> "none",
              val |-> Int_(IF Negative(s) THEN -DigitsNat(u) ELSE DigitsNat(u))]
        ELSE [err |-> "ValueError", val |-> None]

\* drop the trailing zeros of a fraction: the float 200.0 is m = 200, e = 0
RECURSIVE Normal(_, _)
Normal(m, e) == IF e > 0 /\ m % 10 = 0 THEN Normal(m \div 10, e - 1) ELSE Float_(m, e)

\* float(text)
ParseFloat(s) ==
    LET u == Unsigned(s)
        dots == {i \in 1..Len(u) : u[i] = "."}
        dot == IF dots = {} THEN Len(u) + 1 ELSE CHOOSE i \in dots : TRUE
        ip == SubSeq(u, 1, dot - 1)
        fp == SubSeq(u, dot + 1, Len(u))
        mag == DigitsNat(ip \o fp)
    IN  IF Cardinality(dots) <= 1 /\ AllDigits(ip) /\ AllDigits(fp) /\ ip \o fp # <<>>
        THEN [err |-> "none",
              val |-> Normal(IF Negative(s) THEN -mag ELSE mag, Len(fp))]
        ELSE [err |-> "ValueError", val |-> None]

Ok(v) == [err |-> "none", val |-> v]
Raise(e) == [err |-> e, val |-> None]

----------------------------------------------------------------------------
(* Value types *)

\* `x <= 0` on a Python number
LeZero(x) == x.m <= 0

\* `x < 10` on a Python int
LtTen(x) == x.m < 10 * Pow10(x.e)

\* a variant of Engine that rejects negative power only
Engine_nonneg(engine_type, power) ==
    IF power.m < 0 THEN Raise("InvalidValueError")
    ELSE Ok([engine_type |-> engine_type, power |-> power])

Engine(engine_type, power) ==
    IF LeZero(power) THEN Raise("InvalidValueError")
    ELSE Ok([engine_type |-> engine_type, power |-> power])

Engine_to_dict(self) == [engine_type |-> self.engine_type, power |-> self.power]

Engine_from_dict(data) ==
    IF "engine_type" \notin DOMAIN data \/ "power" \notin DOMAIN data
    THEN Raise("KeyError")
    ELSE Engine(data.engine_type, data.power)

Transmission(transmission_type, gears) ==
    IF LeZero(gears) THEN Raise("InvalidValueError")
    ELSE Ok([transmission_type |-> transmission_type, gears |-> gears])

Transmission_to_dict(self) ==
    [transmission_type |-> self.transmission_type, gears |-> self.gears]

Transmission_from_dict(data) ==
    IF "transmission_type" \notin DOMAIN data \/ "gears" \notin DOMAIN data
    THEN Raise("KeyError")
    ELSE Transmission(data.transmission_type, data.gears)

Wheel(size) ==
    IF LtTen(size) THEN Raise("InvalidValueError")
    ELSE Ok([size |-> size])

Wheel_to_dict(self) == [size |-> self.size]

Wheel_from_dict(data) ==
    IF "size" \notin DOMAIN data THEN Raise("KeyError")
    ELSE Wheel(data.size)

----------------------------------------------------------------------------
(* Vehicles *)

\* dict.get(key, default)
Get(data, key, default) == IF key \in DOMAIN data THEN data[key] ELSE default

\* data.update(more), as the value of data afterwards
Update(data, more) ==
    [k \in DOMAIN data \cup DOMAIN more |->
        IF k \in DOMAIN more THEN more[k] ELSE data[k]]

Vehicle(model, eng, trans, wheels) ==
    [kind |-> "Vehicle", model |-> model, engine |-> eng,
     transmission |-> trans, wheels |-> wheels]

Car(model, eng, trans, wheels, seats) ==
    [kind |-> "Car", model |-> model, engine |-> eng,
     transmission |-> trans, wheels |-> wheels, seats |-> seats]

ElectricCar(model, eng, trans, wheels, seats, battery_capacity) ==
    [kind |-> "ElectricCar", model |-> model, engine |-> eng,
     transmission |-> trans, wheels |-> wheels, seats |-> seats,
     battery_capacity |-> battery_capacity]

Bus(model, eng, trans, wheels, capacity, double_decker) ==
    [kind |-> "Bus", model |-> model, engine |-> eng,
     transmission |-> trans, wheels |-> wheels, capacity |-> capacity,
     double_decker |-> double_decker]

Motorcycle(model, eng, trans, wheels, moto_type) ==
    [kind |-> "Motorcycle", model |-> model, engine |-> eng,
     transmission |-> trans, wheels |-> wheels, moto_type |-> moto_type]

Vehicle_to_dict(self) ==
    [type |-> "Vehicle",
     model |-> self.model,
     engine |-> Engine_to_dict(self.engine),
     transmission |-> Transmission_to_dict(self.transmission),
     wheels |-> [i \in 1..Len(self.wheels) |-> Wheel_to_dict(self.wheels[i])]]

Car_to_dict(self) ==
    Update(Vehicle_to_dict(self), [type |-> "Car", seats |-> self.seats])

ElectricCar_to_dict(self) ==
    Update(Car_to_dict(self),
           [type |-> "ElectricCar", battery_capacity |-> self.battery_capacity])

Bus_to_dict(self) ==
    Update(Vehicle_to_dict(self),
           [type |-> "Bus", capacity |-> self.capacity,
            double_decker |-> self.double_decker])

Motorcycle_to_dict(self) ==
    Update(Vehicle_to_dict(self), [type |-> "Motorcycle", moto_type |-> self.moto_type])

\* v.to_dict(), dispatched on the class of v
to_dict(v) ==
    CASE v.kind = "Car" -> Car_to_dict(v)
      [] v.kind = "ElectricCar" -> ElectricCar_to_dict(v)
      [] v.kind = "Bus" -> Bus_to_dict(v)
      [] v.kind = "Motorcycle" -> Motorcycle_to_dict(v)
      [] OTHER -> Vehicle_to_dict(v)

\* [Wheel.from_dict(w) for w in ws]
RECURSIVE Wheels_from_dicts(_)
Wheels_from_dicts(ws) ==
    IF ws = <<>> THEN Ok(<<>>)
    ELSE LET h == Wheel_from_dict(Head(ws))
         IN  IF h.err # "none" THEN h
             ELSE LET r == Wheels_from_dicts(Tail(ws))
                  IN  IF r.err # "none" THEN r ELSE Ok(<<h.val>> \o r.val)

Vehicle_from_dict(data) ==
    IF "engine" \notin DOMAIN data THEN Raise("KeyError")
    ELSE LET e == Engine_from_dict(data.engine)
    IN  IF e.err # "none" THEN e
    ELSE IF "transmission" \notin DOMAIN data THEN Raise("KeyError")
    ELSE LET t == Transmission_from_dict(data.transmission)
    IN  IF t.err # "none" THEN t
    ELSE IF "wheels" \notin DOMAIN data THEN Raise("KeyError")
    ELSE LET w == Wheels_from_dicts(data.wheels)
    IN  IF w.err # "none" THEN w
    ELSE IF "model" \notin DOMAIN data THEN Raise("KeyError")
    ELSE Ok(Vehicle(data.model, e.val, t.val, w.val))

\* a variant of Car_from_dict that does not read "seats"
Car_from_dict_lost(data) ==
    LET vehicle == Vehicle_from_dict(data)
    IN  IF vehicle.err # "none" THEN vehicle
        ELSE Ok(Car(vehicle.val.model, vehicle.val.engine, vehicle.val.transmission,
                    vehicle.val.wheels, Int_(4)))

Car_from_dict(data) ==
    LET vehicle == Vehicle_from_dict(data)
    IN  IF vehicle.err # "none" THEN vehicle
        ELSE Ok(Car(vehicle.val.model, vehicle.val.engine, vehicle.val.transmission,
                    vehicle.val.wheels, Get(data, "seats", Int_(4))))

ElectricCar_from_dict(data) ==
    LET car == Car_from_dict(data)
    IN  IF car.err # "none" THEN car
        ELSE Ok(ElectricCar(car.val.model, car.val.engine, car.val.transmission,
                            car.val.wheels, car.val.seats,
                            Get(data, "battery_capacity", Int_(0))))

\* a variant of Bus_from_dict whose default capacity is 0
Bus_from_dict_zero(data) ==
    LET vehicle == Vehicle_from_dict(data)
    IN  IF vehicle.err # "none" THEN vehicle
        ELSE Ok(Bus(vehicle.val.model, vehicle.val.engine, vehicle.val.transmission,
                    vehicle.val.wheels, Get(data, "capacity", Int_(0)),
                    Get(data, "double_decker", FALSE)))

Bus_from_dict(data) ==
    LET vehicle == Vehicle_from_dict(data)
    IN  IF vehicle.err # "none" THEN vehicle
        ELSE Ok(Bus(vehicle.val.model, vehicle.val.engine, vehicle.val.transmission,
                    vehicle.val.wheels, Get(data, "capacity", Int_(20)),
                    Get(data, "double_decker", FALSE)))

Motorcycle_from_dict(data) ==
    LET vehicle == Vehicle_from_dict(data)
    IN  IF vehicle.err # "none" THEN vehicle
        ELSE Ok(Motorcycle(vehicle.val.model, vehicle.val.engine,
                           vehicle.val.transmission, vehicle.val.wheels,
                           Get(data, "moto_type", "Unknown")))

----------------------------------------------------------------------------
(* VehicleStorage: the JSON record file *)

\* a variant of load_json_item without the Motorcycle branch
load_json_item_nomoto(item) ==
    LET t == Get(item, "type", "Vehicle")
    IN  CASE t = "Car" -> Car_from_dict(item)
          [] t = "ElectricCar" -> ElectricCar_from_dict(item)
          [] t = "Bus" -> Bus_from_dict(item)
          [] OTHER -> Vehicle_from_dict(item)

\* one pass of the body of the loop of load_json
load_json_item(item) ==
    LET t == Get(item, "type", "Vehicle")
    IN  CASE t = "Car" -> Car_from_dict(item)
          [] t = "ElectricCar" -> ElectricCar_from_dict(item)
          [] t = "Bus" -> Bus_from_dict(item)
          [] t = "Motorcycle" -> Motorcycle_from_dict(item)
          [] OTHER -> Vehicle_from_dict(item)

\* a variant of load_json_loop that skips an entry that does not decode
RECURSIVE load_json_loop_skip(_, _, _)
load_json_loop_skip(data, i, acc) ==
    IF i > Len(data) THEN [err |-> "none", val |-> acc]
    ELSE LET d == load_json_item(data[i])
         IN  IF d.err # "none" THEN load_json_loop_skip(data, i + 1, acc)
             ELSE load_json_loop_skip(data, i + 1, Append(acc, d.val))

\* the loop of load_json from entry i on, with acc the list built so far;
\* an exception leaves the loop with the list as it is
RECURSIVE load_json_loop(_, _, _)
load_json_loop(data, i, acc) ==
    IF i > Len(data) THEN [err |-> "none", val |-> acc]
    ELSE LET d == load_json_item(data[i])
         IN  IF d.err # "none" THEN [err |-> d.err, val |-> acc]
             ELSE load_json_loop(data, i + 1, Append(acc, d.val))

\* storage = VehicleStorage(): the caller starts over with a new store
VehicleStorage ==
    /\ vehicles' = <<>>
    /\ last' = [op |-> "init", err |-> "none", had |-> 0]
    /\ UNCHANGED <<jsonFile, xmlFile, savedJson, savedXml>>
    /\ UNCHANGED localVars

add(vehicle) ==
    /\ Len(vehicles) < MaxVehicles
    /\ vehicles' = Append(vehicles, vehicle)
    /\ last' = [op |-> "add", err |-> "none", had |-> Len(vehicles)]
    /\ UNCHANGED <<jsonFile, xmlFile, savedJson, savedXml>>
    /\ UNCHANGED localVars

save_json ==
    /\ jsonFile' = File([i \in 1..Len(vehicles) |-> to_dict(vehicles[i])])
    /\ savedJson' = Some(vehicles)
    /\ last' = [op |-> "save_json", err |-> "none", had |-> Len(vehicles)]
    /\ UNCHANGED <<vehicles, xmlFile, savedXml>>
    /\ UNCHANGED localVars

load_json ==
    /\ IF jsonFile = NoFile
       THEN /\ vehicles' = <<>>
            /\ last' = [op |-> "load_json", err |-> "none", had |-> Len(vehicles)]
       ELSE LET r == load_json_loop(Content(jsonFile), 1, <<>>)
            IN  /\ vehicles' = r.val
                /\ last' = [op |-> "load_json", err |-> r.err, had |-> Len(vehicles)]
    /\ UNCHANGED <<jsonFile, xmlFile, savedJson, savedXml>>
    /\ UNCHANGED localVars

----------------------------------------------------------------------------
(* VehicleStorage: the XML markup file *)
(* An element under the root is [tag |-> t, kids |-> k], k a function from *)
(* the names of its children to their content: a text for a leaf, a        *)
(* function from "type" and "power" (or "gears") to texts for engine and   *)
(* transmission, the sequence of the texts of the wheel children for       *)
(* wheels.  The file is the sequence of the elements under the root.       *)

BaseKeys == {"type", "model", "engine", "transmission", "wheels"}

\* str(d[key]) for a key of to_dict() outside the base keys: the class of the
\* value follows from the key
StrExtra(key, value) ==
    CASE key = "double_decker" -> StrBool(value)
      [] key = "moto_type" -> value
      [] OTHER -> StrNum(value)

\* the element save_xml builds for the vehicle v
save_xml_item(v) ==
    LET d == to_dict(v)
        veh_type == Get(d, "type", "Vehicle")
        base == [model |-> v.model,
                 engine |-> [type |-> v.engine.engine_type,
                             power |-> StrNum(v.engine.power)],
                 transmission |-> [type |-> v.transmission.transmission_type,
                                   gears |-> StrNum(v.transmission.gears)],
                 wheels |-> [i \in 1..Len(v.wheels) |-> StrNum(v.wheels[i].size)]]
        extra == [key \in DOMAIN d \ BaseKeys |-> StrExtra(key, d[key])]
    IN  [tag |-> veh_type, kids |-> Update(base, extra)]

\* veh.findtext(name, default=default)
findtext(veh, name, default) ==
    IF name \in DOMAIN veh.kids THEN veh.kids[name] ELSE default

\* veh.findtext("outer/inner", default=default)
findtext2(veh, outer, inner, default) ==
    IF outer \in DOMAIN veh.kids /\ inner \in DOMAIN veh.kids[outer]
    THEN veh.kids[outer][inner]
    ELSE default

\* int(w.text): the text of an element without text is None
IntOfText(text) == IF text = <<>> THEN Raise("TypeError") ELSE ParseInt(text)

\* [Wheel(int(w.text)) for w in ws]
RECURSIVE Wheels_from_texts(_)
Wheels_from_texts(ws) ==
    IF ws = <<>> THEN Ok(<<>>)
    ELSE LET n == IntOfText(Head(ws))
         IN  IF n.err # "none" THEN n
             ELSE LET h == Wheel(n.val)
                  IN  IF h.err # "none" THEN h
                      ELSE LET r == Wheels_from_texts(Tail(ws))
                           IN  IF r.err # "none" THEN r ELSE Ok(<<h.val>> \o r.val)

\* a variant of load_xml_variant that takes every text but "False" for true
load_xml_variant_loose(veh, model, eng, trans, wheels) ==
    LET vehicle_type == veh.tag
        seats == ParseInt(findtext(veh, "seats", <<"4">>))
        battery == ParseFloat(findtext(veh, "battery_capacity", <<"0">>))
        capacity == ParseInt(findtext(veh, "capacity", <<"2", "0">>))
        double == findtext(veh, "double_decker", "False") # "False"
        moto_type == findtext(veh, "moto_type", "Unknown")
    IN  CASE vehicle_type = "Car" ->
               IF seats.err # "none" THEN seats
               ELSE Ok(Car(model, eng, trans, wheels, seats.val))
          [] vehicle_type = "ElectricCar" ->
               IF seats.err # "none" THEN seats
               ELSE IF battery.err # "none" THEN battery
               ELSE Ok(ElectricCar(model, eng, trans, wheels, seats.val, battery.val))
          [] vehicle_type = "Bus" ->
               IF capacity.err # "none" THEN capacity
               ELSE Ok(Bus(model, eng, trans, wheels, capacity.val, double))
          [] vehicle_type = "Motorcycle" ->
               Ok(Motorcycle(model, eng, trans, wheels, moto_type))
          [] OTHER -> Ok(Vehicle(model, eng, trans, wheels))

\* the part of the loop body of load_xml that builds the vehicle of the class
\* the tag names from the base fields already decoded
load_xml_variant(veh, model, eng, trans, wheels) ==
    LET vehicle_type == veh.tag
        seats == ParseInt(findtext(veh, "seats", <<"4">>))
        battery == ParseFloat(findtext(veh, "battery_capacity", <<"0">>))
        capacity == ParseInt(findtext(veh, "capacity", <<"2", "0">>))
        double == findtext(veh, "double_decker", "False") = "True"
        moto_type == findtext(veh, "moto_type", "Unknown")
    IN  CASE vehicle_type = "Car" ->
               IF seats.err # "none" THEN seats
               ELSE Ok(Car(model, eng, trans, wheels, seats.val))
          [] vehicle_type = "ElectricCar" ->
               IF seats.err # "none" THEN seats
               ELSE IF battery.err # "none" THEN battery
               ELSE Ok(ElectricCar(model, eng, trans, wheels, seats.val, battery.val))
          [] vehicle_type = "Bus" ->
               IF capacity.err # "none" THEN capacity
               ELSE Ok(Bus(model, eng, trans, wheels, capacity.val, double))
          [] vehicle_type = "Motorcycle" ->
               Ok(Motorcycle(model, eng, trans, wheels, moto_type))
          [] OTHER -> Ok(Vehicle(model, eng, trans, wheels))

\* one pass of the body of the loop of load_xml
load_xml_item(veh) ==
    LET model == findtext(veh, "model", "Unknown")
        engine_type == findtext2(veh, "engine", "type", "Unknown")
        power == ParseFloat(findtext2(veh, "engine", "power", <<"0">>))
    IN  IF power.err # "none" THEN power
    ELSE LET eng == Engine(engine_type, power.val)
    IN  IF eng.err # "none" THEN eng
    ELSE LET trans_type == findtext2(veh, "transmission", "type", "Manual")
             gears == ParseInt(findtext2(veh, "transmission", "gears", <<"1">>))
    IN  IF gears.err # "none" THEN gears
    ELSE LET trans == Transmission(trans_type, gears.val)
    IN  IF trans.err # "none" THEN trans
    ELSE IF "wheels" \notin DOMAIN veh.kids THEN Raise("TypeError")
    ELSE LET wheels == Wheels_from_texts(veh.kids.wheels)
    IN  IF wheels.err # "none" THEN wheels
    ELSE load_xml_variant(veh, model, eng.val, trans.val, wheels.val)

\* the loop of load_xml from element i on, with acc the list built so far
RECURSIVE load_xml_loop(_, _, _)
load_xml_loop(root, i, acc) ==
    IF i > Len(root) THEN [err |-> "none", val |-> acc]
    ELSE LET d == load_xml_item(root[i])
         IN  IF d.err # "none" THEN [err |-> d.err, val |-> acc]
             ELSE load_xml_loop(root, i + 1, Append(acc, d.val))

save_xml ==
    /\ xmlFile' = File([i \in 1..Len(vehicles) |-> save_xml_item(vehicles[i])])
    /\ savedXml' = Some(vehicles)
    /\ last' = [op |-> "save_xml", err |-> "none", had |-> Len(vehicles)]
    /\ UNCHANGED <<vehicles, jsonFile, savedJson>>
    /\ UNCHANGED localVars

\* a variant of load_xml that leaves the store as it is when there is no file
load_xml_keep ==
    /\ IF xmlFile = NoFile
       THEN /\ vehicles' = vehicles
            /\ last' = [op |-> "load_xml", err |-> "none", had |-> Len(vehicles)]
       ELSE LET r == load_xml_loop(Content(xmlFile), 1, <<>>)
            IN  /\ vehicles' = r.val
                /\ last' = [op |-> "load_xml", err |-> r.err, had |-> Len(vehicles)]
    /\ UNCHANGED <<jsonFile, xmlFile, savedJson, savedXml>>
    /\ UNCHANGED localVars

load_xml ==
    /\ IF xmlFile = NoFile
       THEN /\ vehicles' = <<>>
            /\ last' = [op |-> "load_xml", err |-> "none", had |-> Len(vehicles)]
       ELSE LET r == load_xml_loop(Content(xmlFile), 1, <<>>)
            IN  /\ vehicles' = r.val
                /\ last' = [op |-> "load_xml", err |-> r.err, had |-> Len(vehicles)]
    /\ UNCHANGED <<jsonFile, xmlFile, savedJson, savedXml>>
    /\ UNCHANGED localVars

----------------------------------------------------------------------------
(* The vehicles the caller constructs and adds *)

Wheels(n, size) == [i \in 1..n |-> Wheel(Int_(size)).val]

\* the vehicle the example driver constructs
new_car ==
    ElectricCar("Tesla Model 3", Engine("Electric", Int_(200)).val,
                Transmission("Automatic", Int_(1)).val, Wheels(4, 19),
                Int_(5), Int_(75))

\* a Bus with an upper deck
double_bus ==
    Bus("Ikarus", Engine("Diesel", Float_(300, 0)).val,
        Transmission("Automatic", Int_(6)).val, Wheels(3, 22),
        Int_(20), TRUE)

VehiclePool ==
    { Vehicle("Cart", Engine("Petrol", Float_(1, 4)).val,
              Transmission("Manual", Int_(1)).val, <<>>),
      Car("Lada", Engine("Petrol", Float_(755, 1)).val,
          Transmission("Manual", Int_(5)).val,
          <<Wheel(Int_(10)).val, Wheel(Int_(14)).val>>, Int_(2)),
      new_car,
      double_bus,
      Bus("", Engine("Diesel", Float_(2505, 1)).val,
          Transmission("Manual", Int_(12)).val, Wheels(1, 100),
          Int_(105), FALSE),
      Motorcycle("Ducati", Engine("", Float_(1105, 2)).val,
                 Transmission("", Int_(6)).val, Wheels(2, 17), "Sport") }

----------------------------------------------------------------------------
(* Files written by another program *)

Without(d, key) == [k \in DOMAIN d \ {key} |-> d[k]]
With(d, key, value) == Update(d, [k \in {key} |-> value])

Tags == {"Car", "ElectricCar", "Bus", "Motorcycle", "Truck"}

JsonBase ==
    [model |-> "M",
     engine |-> [engine_type |-> "Petrol", power |-> Int_(90)],
     transmission |-> [transmission_type |-> "Manual", gears |-> Int_(5)],
     wheels |-> <<[size |-> Int_(15)], [size |-> Int_(10)]>>]

JsonEntries ==
    \* the base fields alone under every tag, and under no tag
    {With(JsonBase, "type", t) : t \in Tags} \cup {JsonBase}
    \* what to_dict writes
    \cup {to_dict(new_car)}
    \* some of the class-specific fields
    \cup {With(With(JsonBase, "type", "ElectricCar"), "battery_capacity", Float_(405, 1)),
          With(With(JsonBase, "type", "Bus"), "double_decker", TRUE),
          With(With(JsonBase, "type", "Vehicle"), "seats", Int_(7))}
    \* a base field absent
    \cup {Without(With(JsonBase, "type", "Car"), k) :
             k \in {"model", "engine", "transmission", "wheels"}}
    \cup {With(JsonBase, "engine", [engine_type |-> "Petrol"])}
    \* a value that breaks the invariant of its value type
    \cup {With(JsonBase, "engine", [engine_type |-> "Petrol", power |-> Int_(0)]),
          With(With(JsonBase, "type", "Bus"), "transmission",
               [transmission_type |-> "Manual", gears |-> Int_(-1)]),
          With(With(JsonBase, "type", "Car"), "wheels",
               <<[size |-> Int_(15)], [size |-> Int_(9)]>>)}

XmlBase ==
    [model |-> "M",
     engine |-> [type |-> "Petrol", power |-> <<"9", "0">>],
     transmission |-> [type |-> "Manual", gears |-> <<"5">>],
     wheels |-> << <<"1", "5">>, <<"1", "0">> >>]

Elem(tag, kids) == [tag |-> tag, kids |-> kids]

XmlEntries ==
    \* the base fields alone under every tag
    {Elem(t, XmlBase) : t \in Tags}
    \* what save_xml writes
    \cup {save_xml_item(new_car)}
    \* some of the class-specific fields
    \cup {Elem("Bus", With(XmlBase, "double_decker", text)) :
             text \in {"True", "False", "false", "", "no"}}
    \cup {Elem("ElectricCar", With(XmlBase, "battery_capacity", <<"4", "0", ".", "5">>)),
          Elem("Vehicle", With(XmlBase, "seats", <<"7">>)),
          Elem("Car", With(XmlBase, "seats", <<"x">>))}
    \* a base field absent
    \cup {Elem("Car", Without(XmlBase, k)) :
             k \in {"model", "engine", "transmission", "wheels"}}
    \cup {Elem("Bus", With(XmlBase, "engine", [type |-> "Petrol"])),
          Elem("Car", With(XmlBase, "transmission", [type |-> "Manual"]))}
    \* a value that breaks the invariant of its value type, or is no number
    \cup {Elem("Car", With(XmlBase, "engine", [type |-> "Petrol", power |-> <<"0", ".", "0">>])),
          Elem("Bus", With(XmlBase, "transmission", [type |-> "Manual", gears |-> <<"-", "1">>])),
          Elem("Car", With(XmlBase, "wheels", << <<"1", "5">>, <<"9">> >>)),
          Elem("Car", With(XmlBase, "wheels", << <<>> >>))}

\* the sequences of at most n elements of the set S
RECURSIVE SeqsUpTo(_, _)
SeqsUpTo(S, n) ==
    IF n = 0 THEN {<<>>}
    ELSE LET shorter == SeqsUpTo(S, n - 1)
         IN  shorter \cup {Append(q, x) : q \in shorter, x \in S}

JsonDocs == SeqsUpTo(JsonEntries, MaxEntries)
XmlDocs == SeqsUpTo(XmlEntries, MaxEntries)

\* what the store may hold when load_json or load_xml is called
PriorContents == {<<>>, <<new_car>>}

----------------------------------------------------------------------------
(* Initial state: a new VehicleStorage, no file on disk, no locals *)

Init ==
    /\ vehicles = <<>>
    /\ jsonFile = NoFile
    /\ xmlFile = NoFile
    /\ savedJson = Nothing
    /\ savedXml = Nothing
    /\ last = [op |-> "init", err |-> "none", had |-> 0]
    /\ engine = Nothing
    /\ transmission = Nothing
    /\ wheel = Nothing
    /\ made = [cls |-> "none", err |-> "none"]

\* the caller adds vehicles, saves the JSON file and loads it
NextJson ==
    \/ VehicleStorage
    \/ \E v \in VehiclePool : add(v)
    \/ save_json
    \/ load_json

SpecJson == Init /\ [][NextJson]_vars

\* the caller adds vehicles, saves the XML file and loads it
NextXml ==
    \/ VehicleStorage
    \/ \E v \in VehiclePool : add(v)
    \/ save_xml
    \/ load_xml

SpecXml == Init /\ [][NextXml]_vars

\* a store with some content, and on disk one file that another program wrote
InitLoad ==
    /\ vehicles \in PriorContents
    /\ \/ jsonFile \in {File(d) : d \in JsonDocs} /\ xmlFile = NoFile
       \/ jsonFile = NoFile /\ xmlFile \in {File(d) : d \in XmlDocs}
    /\ savedJson = Nothing
    /\ savedXml = Nothing
    /\ last = [op |-> "init", err |-> "none", had |-> 0]
    /\ engine = Nothing
    /\ transmission = Nothing
    /\ wheel = Nothing
    /\ made = [cls |-> "none", err |-> "none"]

\* the caller loads the store from either file
NextLoad ==
    \/ load_json
    \/ load_xml

SpecLoad == InitLoad /\ [][NextLoad]_vars

----------------------------------------------------------------------------
(* The caller constructs value objects *)

EngineTypes == {"Petrol", "Electric"}
TransmissionTypes == {"Manual", "Automatic"}

\* 0, -1, -200, 0.0, -0.5, 0.0001, 0.5, 200
Powers ==
    {Int_(0), Int_(-1), Int_(-200), Float_(0, 0), Float_(-5, 1),
     Float_(1, 4), Float_(5, 1), Int_(200)}

GearCounts == {Int_(0), Int_(-1), Int_(1), Int_(6)}

WheelSizes == {Int_(0), Int_(9), Int_(10), Int_(19)}

\* engine = Engine(engine_type, power); the assignment happens unless it raises
new_Engine(engine_type, power) ==
    LET r == Engine(engine_type, power)
    IN  /\ made' = [cls |-> "Engine", args |-> <<engine_type, power>>, err |-> r.err]
        /\ engine' = IF r.err = "none" THEN Some(r.val) ELSE engine
        /\ UNCHANGED <<transmission, wheel>>
        /\ UNCHANGED storeVars

new_Transmission(transmission_type, gears) ==
    LET r == Transmission(transmission_type, gears)
    IN  /\ made' = [cls |-> "Transmission", args |-> <<transmission_type, gears>>,
                    err |-> r.err]
        /\ transmission' = IF r.err = "none" THEN Some(r.val) ELSE transmission
        /\ UNCHANGED <<engine, wheel>>
        /\ UNCHANGED storeVars

new_Wheel(size) ==
    LET r == Wheel(size)
    IN  /\ made' = [cls |-> "Wheel", args |-> <<size>>, err |-> r.err]
        /\ wheel' = IF r.err = "none" THEN Some(r.val) ELSE wheel
        /\ UNCHANGED <<engine, transmission>>
        /\ UNCHANGED storeVars

NextValue ==
    \/ \E t \in EngineTypes, p \in Powers : new_Engine(t, p)
    \/ \E t \in TransmissionTypes, g \in GearCounts : new_Transmission(t, g)
    \/ \E z \in WheelSizes : new_Wheel(z)

SpecValue == Init /\ [][NextValue]_vars

----------------------------------------------------------------------------
(* Properties *)

\* a and b have the same class, base fields and class-specific fields;
\* numbers compare by value
SameVehicle(a, b) ==
    /\ a.kind = b.kind
    /\ DOMAIN a = DOMAIN b
    /\ a.model = b.model
    /\ a.engine.engine_type = b.engine.engine_type
    /\ PyEq(a.engine.power, b.engine.power)
    /\ a.transmission.transmission_type = b.transmission.transmission_type
    /\ PyEq(a.transmission.gears, b.transmission.gears)
    /\ Len(a.wheels) = Len(b.wheels)
    /\ \A i \in 1..Len(a.wheels) : PyEq(a.wheels[i].size, b.wheels[i].size)
    /\ "seats" \in DOMAIN a => PyEq(a.seats, b.seats)
    /\ "battery_capacity" \in DOMAIN a => PyEq(a.battery_capacity, b.battery_capacity)
    /\ "capacity" \in DOMAIN a => PyEq(a.capacity, b.capacity)
    /\ "double_decker" \in DOMAIN a => a.double_decker = b.double_decker
    /\ "moto_type" \in DOMAIN a => a.moto_type = b.moto_type

SameVehicles(s, t) ==
    /\ Len(s) = Len(t)
    /\ \A i \in 1..Len(s) : SameVehicle(s[i], t[i])

\* C1: after save_json and then load_json of the file it wrote, whatever the
\* store held in between, load_json has returned normally and the store holds
\* a list of the same length and order as the saved one, each vehicle with
\* the saved one's class, base fields and class-specific fields.
C1_JsonRoundTrip ==
    (last.op = "load_json" /\ savedJson # Nothing) =>
        /\ last.err = "none"
        /\ SameVehicles(vehicles, ValueOf(savedJson))

\* load_json has replaced one vehicle by the two saved earlier
C1_Witness ==
    /\ last.op = "load_json" /\ savedJson # Nothing
    /\ last.had = 1
    /\ Len(vehicles) = 2
    /\ vehicles[1].kind = "Car" /\ vehicles[1].seats = Int_(2)
    /\ vehicles[2].kind = "ElectricCar" /\ vehicles[2].battery_capacity = Int_(75)

\* C2: after save_xml and then load_xml of the file it wrote, load_xml has
\* returned normally and the store holds a list of the same length and order
\* as the saved one, each vehicle with the saved one's class, base fields and
\* class-specific fields.
C2_XmlRoundTrip ==
    (last.op = "load_xml" /\ savedXml # Nothing) =>
        /\ last.err = "none"
        /\ SameVehicles(vehicles, ValueOf(savedXml))

\* load_xml has read back a Bus with an upper deck and a Motorcycle
C2_Witness ==
    /\ last.op = "load_xml" /\ savedXml # Nothing
    /\ Len(vehicles) = 2
    /\ vehicles[1].kind = "Bus" /\ vehicles[1].double_decker
    /\ vehicles[2].kind = "Motorcycle" /\ vehicles[2].moto_type = "Sport"
    /\ ValueOf(savedXml) = <<double_bus, vehicles[2]>>

\* the entries of the file the last load read
JsonLoaded == last.op = "load_json" /\ jsonFile # NoFile
XmlLoaded == last.op = "load_xml" /\ xmlFile # NoFile

VehicleKeys == {"model", "engine", "transmission", "wheels"}

\* the record entry has every base field, with values its value types accept
JsonBaseValid(e) ==
    /\ VehicleKeys \subseteq DOMAIN e
    /\ {"engine_type", "power"} \subseteq DOMAIN e.engine
    /\ e.engine.power.m > 0
    /\ {"transmission_type", "gears"} \subseteq DOMAIN e.transmission
    /\ e.transmission.gears.m > 0
    /\ \A i \in 1..Len(e.wheels) :
          "size" \in DOMAIN e.wheels[i] /\ e.wheels[i].size.m >= 10

IsInt(text) == ParseInt(text).err = "none"
IsFloat(text) == ParseFloat(text).err = "none"

\* the markup entry has every base field, with values its value types accept,
\* and its class-specific numbers are numbers
XmlValid(e) ==
    /\ VehicleKeys \subseteq DOMAIN e.kids
    /\ {"type", "power"} \subseteq DOMAIN e.kids.engine
    /\ IsFloat(e.kids.engine.power)
    /\ ParseFloat(e.kids.engine.power).val.m > 0
    /\ {"type", "gears"} \subseteq DOMAIN e.kids.transmission
    /\ IsInt(e.kids.transmission.gears)
    /\ ParseInt(e.kids.transmission.gears).val.m > 0
    /\ \A i \in 1..Len(e.kids.wheels) :
          IsInt(e.kids.wheels[i]) /\ ParseInt(e.kids.wheels[i]).val.m >= 10
    /\ "seats" \in DOMAIN e.kids => IsInt(e.kids.seats)
    /\ "capacity" \in DOMAIN e.kids => IsInt(e.kids.capacity)
    /\ "battery_capacity" \in DOMAIN e.kids => IsFloat(e.kids.battery_capacity)

\* entry i and every entry before it is valid
JsonValidUpTo(doc, i) == \A j \in 1..i : JsonBaseValid(doc[j])
XmlValidUpTo(doc, i) == \A j \in 1..i : XmlValid(doc[j])

JsonTag(e) == IF "type" \in DOMAIN e THEN e.type ELSE "absent"

\* C3: load_json of an entry with valid base fields and no class-specific
\* field gives the vehicle the documented default and raises nothing: seats 4,
\* battery_capacity 0, capacity 20, double_decker false, moto_type "Unknown".
C3_JsonDefaults ==
    JsonLoaded =>
        \A i \in 1..Len(Content(jsonFile)) :
            LET e == Content(jsonFile)[i]
            IN  JsonValidUpTo(Content(jsonFile), i) =>
                  /\ i <= Len(vehicles)
                  /\ (i = Len(Content(jsonFile)) => last.err = "none")
                  /\ (JsonTag(e) \in {"Car", "ElectricCar"} /\ "seats" \notin DOMAIN e)
                        => vehicles[i].seats = Int_(4)
                  /\ (JsonTag(e) = "ElectricCar" /\ "battery_capacity" \notin DOMAIN e)
                        => vehicles[i].battery_capacity = Int_(0)
                  /\ (JsonTag(e) = "Bus" /\ "capacity" \notin DOMAIN e)
                        => vehicles[i].capacity = Int_(20)
                  /\ (JsonTag(e) = "Bus" /\ "double_decker" \notin DOMAIN e)
                        => vehicles[i].double_decker = FALSE
                  /\ (JsonTag(e) = "Motorcycle" /\ "moto_type" \notin DOMAIN e)
                        => vehicles[i].moto_type = "Unknown"

\* load_json has decoded a Bus and an ElectricCar from their base fields alone
C3_Witness ==
    /\ JsonLoaded
    /\ Content(jsonFile) =
          <<With(JsonBase, "type", "Bus"), With(JsonBase, "type", "ElectricCar")>>
    /\ Len(vehicles) = 2
    /\ vehicles[1].capacity = Int_(20) /\ ~vehicles[1].double_decker
    /\ vehicles[2].seats = Int_(4) /\ vehicles[2].battery_capacity = Int_(0)

\* C4: load_xml of a valid Bus entry sets double_decker to true exactly when
\* the entry has a double_decker child whose text is "True", and raises
\* nothing.
C4_DoubleDeckerText ==
    XmlLoaded =>
        \A i \in 1..Len(Content(xmlFile)) :
            LET e == Content(xmlFile)[i]
            IN  (XmlValidUpTo(Content(xmlFile), i) /\ e.tag = "Bus") =>
                  /\ i <= Len(vehicles)
                  /\ (i = Len(Content(xmlFile)) => last.err = "none")
                  /\ vehicles[i].double_decker =
                        ("double_decker" \in DOMAIN e.kids
                            /\ e.kids.double_decker = "True")

\* load_xml has decoded a Bus with the text "false" and one with "True"
C4_Witness ==
    /\ XmlLoaded
    /\ Len(vehicles) = 2
    /\ Content(xmlFile)[1] = Elem("Bus", With(XmlBase, "double_decker", "false"))
    /\ ~vehicles[1].double_decker
    /\ Content(xmlFile)[2] = Elem("Bus", With(XmlBase, "double_decker", "True"))
    /\ vehicles[2].double_decker

\* C5: load_json and load_xml of a path without a file return normally and
\* leave the store empty, whatever it held.
C5_MissingFile ==
    /\ (last.op = "load_json" /\ jsonFile = NoFile) =>
          (last.err = "none" /\ vehicles = <<>>)
    /\ (last.op = "load_xml" /\ xmlFile = NoFile) =>
          (last.err = "none" /\ vehicles = <<>>)

\* load_xml has found no file and emptied a store that held a vehicle
C5_Witness ==
    /\ last.op = "load_xml" /\ xmlFile = NoFile
    /\ last.had = 1
    /\ vehicles = <<>>

\* C6: Engine raises InvalidValueError exactly when power <= 0, Transmission
\* exactly when gears <= 0, Wheel exactly when size < 10; otherwise the
\* object holds the arguments.
C6_Construction ==
    /\ made.cls = "Engine" =>
          /\ made.err = (IF made.args[2].m <= 0 THEN "InvalidValueError" ELSE "none")
          /\ made.err = "none" =>
                engine = Some([engine_type |-> made.args[1], power |-> made.args[2]])
    /\ made.cls = "Transmission" =>
          /\ made.err = (IF made.args[2].m <= 0 THEN "InvalidValueError" ELSE "none")
          /\ made.err = "none" =>
                transmission =
                    Some([transmission_type |-> made.args[1], gears |-> made.args[2]])
    /\ made.cls = "Wheel" =>
          /\ made.err = (IF made.args[1].m < 10 THEN "InvalidValueError" ELSE "none")
          /\ made.err = "none" => wheel = Some([size |-> made.args[1]])

\* Engine has accepted the power 0.0001 after Wheel accepted the size 10
C6_Witness ==
    /\ made.cls = "Engine" /\ made.args[2] = Float_(1, 4) /\ made.err = "none"
    /\ wheel = Some([size |-> Int_(10)])
    /\ transmission = Some([transmission_type |-> "Manual", gears |-> Int_(1)])

\* the entry at which the last load stopped
StoppedAtJson == Content(jsonFile)[Len(vehicles) + 1]
StoppedAtXml == Content(xmlFile)[Len(vehicles) + 1]

\* the record entry holds a value that its value type rejects
JsonHoldsInvalid(e) ==
    \/ /\ "engine" \in DOMAIN e
       /\ "power" \in DOMAIN e.engine
       /\ e.engine.power.m <= 0
    \/ /\ "transmission" \in DOMAIN e
       /\ "gears" \in DOMAIN e.transmission
       /\ e.transmission.gears.m <= 0
    \/ /\ "wheels" \in DOMAIN e
       /\ \E i \in 1..Len(e.wheels) :
             "size" \in DOMAIN e.wheels[i] /\ e.wheels[i].size.m < 10

\* the markup entry holds a text whose number its value type rejects
XmlHoldsInvalid(e) ==
    \/ /\ "engine" \in DOMAIN e.kids
       /\ "power" \in DOMAIN e.kids.engine
       /\ IsFloat(e.kids.engine.power)
       /\ ParseFloat(e.kids.engine.power).val.m <= 0
    \/ /\ "transmission" \in DOMAIN e.kids
       /\ "gears" \in DOMAIN e.kids.transmission
       /\ IsInt(e.kids.transmission.gears)
       /\ ParseInt(e.kids.transmission.gears).val.m <= 0
    \/ /\ "wheels" \in DOMAIN e.kids
       /\ \E i \in 1..Len(e.kids.wheels) :
             IsInt(e.kids.wheels[i]) /\ ParseInt(e.kids.wheels[i]).val.m < 10

\* C7: a load that ends with InvalidValueError stopped at an entry that holds
\* a rejected value: a default put in for an absent field is never the cause.
C7_DefaultsAreValid ==
    /\ (JsonLoaded /\ last.err = "InvalidValueError") => JsonHoldsInvalid(StoppedAtJson)
    /\ (XmlLoaded /\ last.err = "InvalidValueError") => XmlHoldsInvalid(StoppedAtXml)

\* C8: an entry without model, engine, transmission or wheels makes the load
\* fail, and every vehicle in the store comes from an entry that has all four.
C8_BaseFieldsMandatory ==
    /\ JsonLoaded =>
          /\ \A i \in 1..Len(vehicles) : VehicleKeys \subseteq DOMAIN Content(jsonFile)[i]
          /\ (\E i \in 1..Len(Content(jsonFile)) :
                 ~(VehicleKeys \subseteq DOMAIN Content(jsonFile)[i]))
                => last.err # "none"
    /\ XmlLoaded =>
          /\ \A i \in 1..Len(vehicles) :
                VehicleKeys \subseteq DOMAIN Content(xmlFile)[i].kids
          /\ (\E i \in 1..Len(Content(xmlFile)) :
                 ~(VehicleKeys \subseteq DOMAIN Content(xmlFile)[i].kids))
                => last.err # "none"

\* the class an entry with tag t decodes to
KindForTag(t) ==
    IF t \in {"Car", "ElectricCar", "Bus", "Motorcycle"} THEN t ELSE "Vehicle"

VehicleAttrs == {"kind", "model", "engine", "transmission", "wheels"}

\* vehicle v is of the class the tag names and, if of class Vehicle, has the
\* base fields only
DispatchedAs(v, tag) ==
    /\ v.kind = KindForTag(tag)
    /\ v.kind = "Vehicle" => DOMAIN v = VehicleAttrs

\* C9: a valid entry tagged Car, ElectricCar, Bus or Motorcycle decodes as
\* that class; a valid entry with any other tag, or no "type" in the record
\* format, decodes as a Vehicle with the base fields only; neither raises.
C9_TagDispatch ==
    /\ JsonLoaded =>
          \A i \in 1..Len(Content(jsonFile)) :
             JsonValidUpTo(Content(jsonFile), i) =>
                /\ i <= Len(vehicles)
                /\ (i = Len(Content(jsonFile)) => last.err = "none")
                /\ DispatchedAs(vehicles[i], JsonTag(Content(jsonFile)[i]))
    /\ XmlLoaded =>
          \A i \in 1..Len(Content(xmlFile)) :
             XmlValidUpTo(Content(xmlFile), i) =>
                /\ i <= Len(vehicles)
                /\ (i = Len(Content(xmlFile)) => last.err = "none")
                /\ DispatchedAs(vehicles[i], Content(xmlFile)[i].tag)

\* load_json has decoded an entry without "type" and a Motorcycle entry
C9_Witness ==
    /\ JsonLoaded
    /\ Len(vehicles) = 2
    /\ Content(jsonFile)[1] = JsonBase
    /\ vehicles[1].kind = "Vehicle"
    /\ Content(jsonFile)[2] = With(JsonBase, "type", "Motorcycle")
    /\ vehicles[2].kind = "Motorcycle"

\* the positions of the entries of a file that do not decode
JsonBad(doc) == {k \in 1..Len(doc) : load_json_item(doc[k]).err # "none"}
XmlBad(doc) == {k \in 1..Len(doc) : load_xml_item(doc[k]).err # "none"}

Min(S) == CHOOSE k \in S : \A j \in S : k <= j

\* C10: when entry k is the first that does not decode, the load ends with
\* the error of entry k and the store holds the vehicles of entries 1..k-1 in
\* order and nothing else.
C10_AbortAtFirstBad ==
    /\ (JsonLoaded /\ JsonBad(Content(jsonFile)) # {}) =>
          LET doc == Content(jsonFile)
              k == Min(JsonBad(doc))
          IN  /\ last.err = load_json_item(doc[k]).err
              /\ vehicles = [i \in 1..(k - 1) |-> load_json_item(doc[i]).val]
    /\ (XmlLoaded /\ XmlBad(Content(xmlFile)) # {}) =>
          LET doc == Content(xmlFile)
              k == Min(XmlBad(doc))
          IN  /\ last.err = load_xml_item(doc[k]).err
              /\ vehicles = [i \in 1..(k - 1) |-> load_xml_item(doc[i]).val]

\* load_xml has stopped at the second of two entries with InvalidValueError,
\* in a store that held one vehicle before
C10_Witness ==
    /\ XmlLoaded
    /\ last.err = "InvalidValueError"
    /\ last.had = 1
    /\ Len(Content(xmlFile)) = 2
    /\ XmlHoldsInvalid(Content(xmlFile)[2])
    /\ Len(vehicles) = 1
    /\ vehicles[1] # new_car

====
